---- MODULE Spec2Model ----
(***************************************************************************)
(* SDFGen command-line driver (src/main.cpp): argument validation, the     *)
(* OBJ load loop, the padded sampling domain, the call of the level-set    *)
(* engine and the write of the result.                                     *)
(*                                                                         *)
(* Strings are sequences of one-character strings.  A float is the integer *)
(* number of 2^-23 units it holds (FOne is 1.0f); every value the bounded  *)
(* inputs produce is a multiple of that unit, and RoundF rounds an exact   *)
(* result to the 24 significant bits of IEEE binary32, ties to even.       *)
(* An unsigned int holds its 32-bit pattern, written as the signed integer *)
(* with the same bits (-1 is 4294967295); ULess compares it unsigned.      *)
(***************************************************************************)
EXTENDS Integers, Sequences, FiniteSets, TLC

\* ------------------------------------------------------------------ bounds
MaxLines == 2        \* newline-terminated lines in the input file

\* --------------------------------------------------------- string helpers
Digit == {"0", "1", "2", "3", "4", "5", "6", "7", "8", "9"}

DigitVal(c) ==
    CASE c = "0" -> 0 [] c = "1" -> 1 [] c = "2" -> 2 [] c = "3" -> 3
      [] c = "4" -> 4 [] c = "5" -> 5 [] c = "6" -> 6 [] c = "7" -> 7
      [] c = "8" -> 8 [] c = "9" -> 9

npos == 2147483647

Min(a, b) == IF a < b THEN a ELSE b

Max(a, b) == IF a < b THEN b ELSE a

\* std::string::substr(pos, n): at most n characters from 0-based pos; the
\* callers never pass pos > size.
substr(s, pos, n) ==
    SubSeq(s, pos + 1, pos + Min(n, Len(s) - pos))

\* std::string::find(ch): 0-based position of the first ch, or npos.
find(s, ch) ==
    IF \E i \in 1..Len(s) : s[i] = ch
      THEN (CHOOSE i \in 1..Len(s) : s[i] = ch /\ \A j \in 1..(i - 1) : s[j] # ch) - 1
      ELSE npos

\* split(s, delim): the items std::getline(iss, item, delim) yields.  An
\* empty field between two delimiters is an item; a delimiter that ends
\* the string is not followed by one.
RECURSIVE split(_, _)
split(s, delim) ==
    IF s = <<>> THEN <<>>
    ELSE LET p == find(s, delim) IN
         IF p = npos THEN <<s>>
         ELSE <<substr(s, 0, p)>> \o split(substr(s, p + 1, npos), delim)

\* Value of the longest run of digits at the front of s, after acc.
RECURSIVE DigitsValue(_, _)
DigitsValue(s, acc) ==
    IF s # <<>> /\ s[1] \in Digit
      THEN DigitsValue(Tail(s), 10 * acc + DigitVal(s[1]))
      ELSE acc

RECURSIVE SkipSpaces(_)
SkipSpaces(s) ==
    IF s # <<>> /\ s[1] = " " THEN SkipSpaces(Tail(s)) ELSE s

RECURSIVE DropDigits(_)
DropDigits(s) ==
    IF s # <<>> /\ s[1] \in Digit THEN DropDigits(Tail(s)) ELSE s

\* std::stoi(s): skips leading blanks, takes an optional sign and the
\* digits that follow, ignores what comes after them; throws
\* std::invalid_argument (ok = FALSE) when there is no digit.
stoi(s) ==
    LET t    == SkipSpaces(s)
        neg  == t # <<>> /\ t[1] = "-"
        body == IF t # <<>> /\ t[1] \in {"-", "+"} THEN Tail(t) ELSE t
    IN IF body # <<>> /\ body[1] \in Digit
         THEN [ok |-> TRUE,
               val |-> IF neg THEN 0 - DigitsValue(body, 0) ELSE DigitsValue(body, 0)]
         ELSE [ok |-> FALSE, val |-> 0]

\* ------------------------------------------------------------------ floats
FOne == 8388608

\* std::numeric_limits<float>::max(), held as a value above every finite
\* value the bounded inputs produce.
FLT_MAX == 2147483646

Abs(x) == IF x < 0 THEN 0 - x ELSE x

RECURSIVE Pow2(_)
Pow2(k) == IF k <= 0 THEN 1 ELSE 2 * Pow2(k - 1)

\* Number of bits of n above 24.
RECURSIVE ExcessBits(_)
ExcessBits(n) == IF n < 16777216 THEN 0 ELSE 1 + ExcessBits(n \div 2)

\* Round the exact value n to binary32: nearest, ties to even.
RoundF(n) ==
    LET a    == Abs(n)
        q    == Pow2(ExcessBits(a))
        r    == a % q
        base == a - r
        up   == (2 * r > q) \/ (2 * r = q /\ (base \div q) % 2 = 1)
        m    == IF r = 0 THEN a ELSE IF up THEN base + q ELSE base
    IN IF n < 0 THEN 0 - m ELSE m

\* a - b and a + b in binary32.  FLT_MAX absorbs the small values added to
\* it or subtracted from it.
FSub(a, b) == IF Abs(a) = FLT_MAX THEN a ELSE RoundF(a - b)

FAdd(a, b) == IF Abs(a) = FLT_MAX THEN a ELSE RoundF(a + b)

\* padding * dx: the int is converted to float (exactly) and multiplied.
FMulInt(k, x) == RoundF(k * x)

\* e with 2^e < n <= 2^(e+1), for n >= 1.
RECURSIVE CeilLog2m1(_)
CeilLog2m1(n) == IF n <= 1 THEN 0 - 1 ELSE 1 + CeilLog2m1((n + 1) \div 2)

\* (unsigned int)(num / den) for num >= 0, den > 0: the quotient is rounded
\* to binary32 and then truncated.  The rounded quotient reaches the next
\* integer n1 when the exact one is within half a unit in the last place
\* below n1.
DivTruncPos(num, den) ==
    LET n1   == (num \div den) + 1
        gap  == den - (num % den)
        half == den \div Pow2(24 - CeilLog2m1(n1))
    IN IF gap <= half THEN n1 ELSE n1 - 1


\* (unsigned int)(num / den) on one axis.  Converting an infinite, NaN or
\* negative (<= -1) float to unsigned is undefined (DimUndefined); the
\* conversion then yields g, one of DimGarbage.
DimGarbage == {0, 0 - 1}

DimUndefined(num, den) ==
    \/ Abs(num) = FLT_MAX
    \/ den = 0
    \/ num # 0 /\ (num < 0) # (den < 0) /\ DivTruncPos(Abs(num), Abs(den)) # 0

DimValue(num, den, g) ==
    IF DimUndefined(num, den) THEN g
    ELSE IF num = 0 THEN 0
    ELSE IF (num < 0) = (den < 0) THEN DivTruncPos(Abs(num), Abs(den))
    ELSE 0

\* Unsigned comparison of two 32-bit patterns.
ULess(a, b) ==
    IF (a >= 0) = (b >= 0) THEN a < b ELSE a >= 0

\* ------------------------------------------------------------------ inputs
ArgCounts == {3, 4, 5}

Filenames ==
    { <<"a", ".", "o", "b", "j">>,
      <<".", "o", "b", "j">>,
      <<"b", ".", "o", "b">>,
      <<"a", ".", "o", "b", "j", "s">>,
      <<"a", "b">> }

\* 1.0f, 0, -1.0f and 1.33333373f (0x3FAAAAAE).
DxArgs == {FOne, 0, 0 - FOne, 11184814}

PaddingArgs == {0 - 1, 0, 1, 3}

CommandLines ==
    { [argc |-> n, filename |-> <<>>, arg2 |-> 0, arg3 |-> 0] : n \in ArgCounts \ {4} }
    \cup
    { [argc |-> 4, filename |-> f, arg2 |-> d, arg3 |-> p] :
          f \in Filenames, d \in DxArgs, p \in PaddingArgs }

Lines ==
    { <<>>,
      <<"#", " ", "h", "e", "l", "l", "o">>,
      <<"v", "n", " ", "0", " ", "0", " ", "1">>,
      <<"v", " ", "0", " ", "0", " ", "0">>,
      <<"v", " ", "1", " ", "2", " ", "0">>,
      <<"v", " ", "1">>,
      <<"f", " ", "1", " ", "2", " ", "3">>,
      <<"f", " ", "1", "/", "1", "/", "1", " ", "2", "/", "2", "/", "2", " ", "3", "/", "3", "/", "3">>,
      <<"f", " ", "1", " ", "2", " ", "3", " ", "4">>,
      <<"f", " ", "1", " ", "1", " ", "1">>,
      <<"f", " ", "0", " ", "1", " ", "2">>,
      <<"f">>,
      <<"f", " ", "1", " ", "2">>,
      <<"f", " ", " ", "1", " ", "2", " ", "3">> }

\* What an out-of-range tokens[k] or an uninitialized float can hold.  ub is
\* the set of undefined reads and conversions the run has executed: "point"
\* (an uninitialized component of point), "tokens" (tokens[k] out of range),
\* "sizes" (an unrepresentable float converted to unsigned), "vertList" (the
\* engine indexing past the vertices).
GarbageInts == {0, 1}

GarbageFloats == {0, 2 * FOne}

\* ------------------------------------------------------------------- state
VARIABLES argc, filename, arg2, arg3,
          pc, status, dx, padding, min_box, max_box,
          infile, eof, line, reads,
          vertList, faceList, ignored_lines, ub,
          sizes, phi_grid, outfile

vars == <<argc, filename, arg2, arg3, pc, status, dx, padding, min_box, max_box,
          infile, eof, line, reads, vertList, faceList, ignored_lines, ub,
          sizes, phi_grid, outfile>>

args == <<argc, filename, arg2, arg3>>

mesh == <<vertList, faceList, ignored_lines>>

NoFile == [name |-> <<>>, dims |-> <<>>, origin |-> <<>>, spacing |-> 0]

Init ==
    /\ \E c \in CommandLines :
          /\ argc = c.argc
          /\ filename = c.filename
          /\ arg2 = c.arg2
          /\ arg3 = c.arg3
    /\ pc = "argc"
    /\ status = "running"
    /\ dx = 0
    /\ padding = 0
    /\ min_box = <<0, 0, 0>>
    /\ max_box = <<0, 0, 0>>
    /\ infile = "unopened"
    /\ eof = FALSE
    /\ line = <<>>
    /\ reads = 0
    /\ vertList = <<>>
    /\ faceList = <<>>
    /\ ignored_lines = 0
    /\ ub = {}
    /\ sizes = <<0, 0, 0>>
    /\ phi_grid = <<>>
    /\ outfile = NoFile

\* ----------------------------------------------------- argument validation
CheckArgc ==
    /\ pc = "argc"
    /\ IF argc # 4
         THEN pc' = "exit" /\ status' = "exit(-1)"
         ELSE pc' = "suffix" /\ status' = status
    /\ UNCHANGED <<args, dx, padding, min_box, max_box, infile, eof, line, reads,
                   mesh, ub, sizes, phi_grid, outfile>>

\* The suffix test without the length test.
HasObjSuffix_NoLengthTest(name) ==
    Len(name) >= 4 /\ substr(name, Len(name) - 4, npos) = <<".", "o", "b", "j">>

HasObjSuffix(name) ==
    ~(Len(name) < 5 \/ substr(name, Len(name) - 4, npos) # <<".", "o", "b", "j">>)

CheckSuffix ==
    /\ pc = "suffix"
    /\ IF HasObjSuffix(filename)
         THEN pc' = "args" /\ status' = status
         ELSE pc' = "exit" /\ status' = "exit(-1)"
    /\ UNCHANGED <<args, dx, padding, min_box, max_box, infile, eof, line, reads,
                   mesh, ub, sizes, phi_grid, outfile>>

\* The floor placed at 0 instead of 1.
ClampPadding_FloorAtZero(p) == IF p < 0 THEN 1 ELSE p

ClampPadding(p) == IF p < 1 THEN 1 ELSE p

ParseArgs ==
    /\ pc = "args"
    /\ dx' = arg2
    /\ padding' = ClampPadding(arg3)
    /\ min_box' = <<FLT_MAX, FLT_MAX, FLT_MAX>>
    /\ max_box' = <<0 - FLT_MAX, 0 - FLT_MAX, 0 - FLT_MAX>>
    /\ pc' = "open"
    /\ UNCHANGED <<args, status, infile, eof, line, reads, mesh, ub, sizes,
                   phi_grid, outfile>>

OpenInput ==
    /\ pc = "open"
    /\ \E ok \in BOOLEAN :
          IF ok
            THEN infile' = "open" /\ pc' = "load" /\ status' = status
            ELSE infile' = "failed" /\ pc' = "exit" /\ status' = "exit(-1)"
    /\ UNCHANGED <<args, dx, padding, min_box, max_box, eof, line, reads, mesh,
                   ub, sizes, phi_grid, outfile>>

\* ---------------------------------------------------------------- the load
\* One `data >> point[k]` on the rest of the stream.  "ok": a number was
\* read; "zero": the field does not start a number, 0 is stored and the
\* stream fails; "untouched": the stream was already failed or at its end,
\* nothing is stored.
ExtractFloat(s, good) ==
    LET t    == SkipSpaces(s)
        neg  == t # <<>> /\ t[1] = "-"
        body == IF t # <<>> /\ t[1] \in {"-", "+"} THEN Tail(t) ELSE t
    IN IF ~good \/ t = <<>>
         THEN [how |-> "untouched", val |-> 0, rest |-> <<>>, good |-> FALSE]
       ELSE IF body # <<>> /\ body[1] \in Digit
         THEN [how |-> "ok",
               val |-> RoundF((IF neg THEN 0 - 1 ELSE 1) * DigitsValue(body, 0) * FOne),
               rest |-> DropDigits(body),
               good |-> DropDigits(body) # <<>>]
       ELSE [how |-> "zero", val |-> 0, rest |-> t, good |-> FALSE]

\* `data >> c >> point[0] >> point[1] >> point[2]` on a line that starts
\* with "v ": the points the push_back can append.  A component the stream
\* never stored keeps whatever the uninitialized Vec3f held.
VertexOutcomes(ln) ==
    LET e0 == ExtractFloat(Tail(ln), TRUE)
        e1 == ExtractFloat(e0.rest, e0.good)
        e2 == ExtractFloat(e1.rest, e1.good)
        Vals(e) == IF e.how = "untouched" THEN GarbageFloats ELSE {e.val}
    IN { [point |-> <<a, b, c>>,
          ub |-> "untouched" \in {e0.how, e1.how, e2.how}] :
            a \in Vals(e0), b \in Vals(e1), c \in Vals(e2) }

\* update_minmax(point, min_box, max_box): component-wise minimum and
\* maximum.
update_min(point, lo) == [i \in 1..3 |-> Min(lo[i], point[i])]

update_max(point, hi) == [i \in 1..3 |-> Max(hi[i], point[i])]

\* The part of a face token std::stoi is given.  idx is a size_t, so
\* `idx < 0` is never true and substr(0, idx) is always taken; with
\* idx = npos it is the whole token.
LeadingField(tok) == substr(tok, 0, find(tok, "/"))

\* Lines 107-118 on a line that starts with "f", from tokens[k] on, with
\* the indices acc parsed so far: the ways the iteration can end.  "push":
\* the triangle tri is appended; "abort": std::stoi threw and nothing
\* catches it; "segv": the out-of-range tokens[k] faulted.
RECURSIVE FaceOutcomes(_, _, _, _)
FaceOutcomes(tokens, k, acc, u) ==
    IF k > 3 THEN {[kind |-> "push", tri |-> acc, ub |-> u]}
    ELSE IF k >= Len(tokens)
      THEN {[kind |-> "segv", tri |-> <<>>, ub |-> TRUE],
            [kind |-> "abort", tri |-> <<>>, ub |-> TRUE]}
           \cup UNION { FaceOutcomes(tokens, k + 1, Append(acc, g - 1), TRUE) :
                          g \in GarbageInts }
    ELSE LET r == stoi(LeadingField(tokens[k + 1])) IN
         IF r.ok THEN FaceOutcomes(tokens, k + 1, Append(acc, r.val - 1), u)
         ELSE {[kind |-> "abort", tri |-> <<>>, ub |-> u]}

IsVertexLine(ln) == substr(ln, 0, 1) = <<"v">> /\ substr(ln, 1, 1) = <<" ">>

IsFaceLine(ln) == substr(ln, 0, 1) = <<"f">>

\* What std::getline can deliver on the next call: a line that ends in a
\* newline, a last line that ends at the end of the file, or nothing (the
\* file is exhausted: line is left empty and eof is set).
StreamItems ==
    { [text |-> l, eof |-> FALSE] : l \in IF reads < MaxLines THEN Lines ELSE {} }
    \cup { [text |-> l, eof |-> TRUE] : l \in IF reads < MaxLines THEN Lines \ {<<>>} ELSE {} }
    \cup { [text |-> <<>>, eof |-> TRUE] }

ReadVertex ==
    /\ pc = "load" /\ ~eof
    /\ \E item \in StreamItems :
          /\ IsVertexLine(item.text)
          /\ line' = item.text
          /\ eof' = item.eof
          /\ \E o \in VertexOutcomes(item.text) :
                /\ vertList' = Append(vertList, o.point)
                /\ min_box' = update_min(o.point, min_box)
                /\ max_box' = update_max(o.point, max_box)
                /\ ub' = (IF o.ub THEN ub \cup {"point"} ELSE ub)
    /\ reads' = reads + 1
    /\ UNCHANGED <<args, pc, status, dx, padding, infile, faceList, ignored_lines,
                   sizes, phi_grid, outfile>>

ReadFace ==
    /\ pc = "load" /\ ~eof
    /\ \E item \in StreamItems :
          /\ ~IsVertexLine(item.text) /\ IsFaceLine(item.text)
          /\ line' = item.text
          /\ eof' = item.eof
          /\ \E o \in FaceOutcomes(split(item.text, " "), 1, <<>>, FALSE) :
                /\ ub' = (IF o.ub THEN ub \cup {"tokens"} ELSE ub)
                /\ IF o.kind = "push"
                     THEN /\ faceList' = Append(faceList, o.tri)
                          /\ pc' = pc /\ status' = status
                     ELSE /\ faceList' = faceList
                          /\ pc' = "exit" /\ status' = o.kind
    /\ reads' = reads + 1
    /\ UNCHANGED <<args, dx, padding, min_box, max_box, infile, vertList,
                   ignored_lines, sizes, phi_grid, outfile>>

\* The count left as it is.
NextIgnored_NotCounted(n) == n

\* ++ignored_lines
NextIgnored(n) == n + 1

ReadOther ==
    /\ pc = "load" /\ ~eof
    /\ \E item \in StreamItems :
          /\ ~IsVertexLine(item.text) /\ ~IsFaceLine(item.text)
          /\ line' = item.text
          /\ eof' = item.eof
    /\ ignored_lines' = NextIgnored(ignored_lines)
    /\ reads' = reads + 1
    /\ UNCHANGED <<args, pc, status, dx, padding, min_box, max_box, infile,
                   vertList, faceList, ub, sizes, phi_grid, outfile>>

EndLoad ==
    /\ pc = "load" /\ eof
    /\ infile' = "closed"
    /\ pc' = "domain"
    /\ UNCHANGED <<args, status, dx, padding, min_box, max_box, eof, line, reads,
                   mesh, ub, sizes, phi_grid, outfile>>

\* ------------------------------------------------------------- the domain
PadAmount(p, d) == FMulInt(p, d)

PaddedMin(lo, p, d) == [i \in 1..3 |-> FSub(lo[i], PadAmount(p, d))]

PaddedMax(hi, p, d) == [i \in 1..3 |-> FAdd(hi[i], PadAmount(p, d))]

\* Vec3ui((max_box - min_box) / dx): the dimension triples it can give.
SizesOutcomes(lo, hi, d) ==
    { [i \in 1..3 |-> DimValue(FSub(hi[i], lo[i]), d, g)] : g \in DimGarbage }

SizesUndefined(lo, hi, d) ==
    \E i \in 1..3 : DimUndefined(FSub(hi[i], lo[i]), d)

BuildDomain ==
    /\ pc = "domain"
    /\ min_box' = PaddedMin(min_box, padding, dx)
    /\ max_box' = PaddedMax(max_box, padding, dx)
    /\ sizes' \in SizesOutcomes(min_box', max_box', dx)
    /\ ub' = (IF SizesUndefined(min_box', max_box', dx) THEN ub \cup {"sizes"} ELSE ub)
    /\ pc' = "engine"
    /\ UNCHANGED <<args, status, dx, padding, infile, eof, line, reads, mesh,
                   phi_grid, outfile>>

\* ------------------------------------------------------------- the engine
\* make_level_set3 reads vertList[index] for every index of every face.
IndicesInRange(faces, verts) ==
    \A f \in 1..Len(faces) : \A i \in 1..3 : ULess(faces[f][i], Len(verts))

EngineReturns ==
    /\ pc = "engine"
    /\ phi_grid' = sizes
    /\ pc' = "write"
    /\ UNCHANGED <<args, status, dx, padding, min_box, max_box, infile, eof, line,
                   reads, mesh, ub, sizes, outfile>>

EngineFaults ==
    /\ pc = "engine"
    /\ ~IndicesInRange(faceList, vertList)
    /\ pc' = "exit"
    /\ status' = "segv"
    /\ ub' = ub \cup {"vertList"}
    /\ UNCHANGED <<args, dx, padding, min_box, max_box, infile, eof, line, reads,
                   mesh, sizes, phi_grid, outfile>>

\* -------------------------------------------------------------- the output
OutName(name, suffix) == substr(name, 0, Len(name) - 4) \o suffix

WriteSdf ==
    /\ pc = "write"
    /\ outfile' = [name |-> OutName(filename, <<".", "s", "d", "f">>),
                   dims |-> phi_grid,
                   origin |-> min_box,
                   spacing |-> dx]
    /\ pc' = "exit"
    /\ status' = "return 0"
    /\ UNCHANGED <<args, dx, padding, min_box, max_box, infile, eof, line, reads,
                   mesh, ub, sizes, phi_grid>>

\* The .vti origin is (ni*dx/2, nj*dx/2, nk*dx/2); halving a float is exact,
\* and the record holds the origin in half units.
WriteVti ==
    /\ pc = "write"
    /\ outfile' = [name |-> OutName(filename, <<".", "v", "t", "i">>),
                   dims |-> phi_grid,
                   origin |-> [i \in 1..3 |-> FMulInt(phi_grid[i], dx)],
                   spacing |-> dx]
    /\ pc' = "exit"
    /\ status' = "return 0"
    /\ UNCHANGED <<args, dx, padding, min_box, max_box, infile, eof, line, reads,
                   mesh, ub, sizes, phi_grid>>

Next ==
    \/ CheckArgc
    \/ CheckSuffix
    \/ ParseArgs
    \/ OpenInput
    \/ ReadVertex
    \/ ReadFace
    \/ ReadOther
    \/ EndLoad
    \/ BuildDomain
    \/ EngineReturns
    \/ EngineFaults
    \/ WriteSdf
    \/ WriteVti

Spec == Init /\ [][Next]_vars

\* ================================================================== claims
\* The vocabulary of the statements below, independent of the code's own
\* parsing.

\* The maximal runs of non-blank characters of s.
RECURSIVE WsTokens(_, _)
WsTokens(s, cur) ==
    IF s = <<>> THEN (IF cur = <<>> THEN <<>> ELSE <<cur>>)
    ELSE IF s[1] = " "
      THEN (IF cur = <<>> THEN <<>> ELSE <<cur>>) \o WsTokens(Tail(s), <<>>)
      ELSE WsTokens(Tail(s), Append(cur, s[1]))

VertexRecord(ln) == Len(ln) >= 2 /\ ln[1] = "v" /\ ln[2] = " "

FaceRecord(ln) == Len(ln) >= 1 /\ ln[1] = "f"

\* The tokens of a face line after its "f".
VertexTokens(ln) == Tail(WsTokens(ln, <<>>))

\* The integer a token starts with (the tokens of Lines are unsigned).
LeadingInt(tok) == DigitsValue(tok, 0)

EndsInObj(name) ==
    Len(name) >= 4 /\ SubSeq(name, Len(name) - 3, Len(name)) = <<".", "o", "b", "j">>

Crashed == status \in {"abort", "segv"}

\* ParseArgs has run.
ArgsParsed == pc \in {"open", "load", "domain", "engine", "write"}
                 \/ (pc = "exit" /\ infile # "unopened")

SeqMin(S) == CHOOSE x \in S : \A y \in S : x <= y

SeqMax(S) == CHOOSE x \in S : \A y \in S : y <= x

Column(verts, i) == { verts[k][i] : k \in 1..Len(verts) }

IsPrefix(a, b) == Len(a) <= Len(b) /\ SubSeq(b, 1, Len(a)) = a

\* ---------------------------------------------------------------------- C1
\* C1: a line beginning with `f` that carries fewer than three vertex tokens
\* is a reported parse error: processing it never ends the run in an
\* uncontrolled crash and never reads a token that is not there.
C1_ShortFaceIsReported ==
    (reads > 0 /\ FaceRecord(line) /\ Len(VertexTokens(line)) < 3)
        => (~Crashed /\ "tokens" \notin ub)

\* ---------------------------------------------------------------------- C2
\* C2: whenever make_level_set3 is about to be called, every index of every
\* stored triangle is strictly less than the number of loaded vertices
\* (stated for the runs whose lines were all read without an undefined
\* read).
C2_EngineIndicesInRange ==
    (pc = "engine" /\ ub = {}) =>
        \A f \in 1..Len(faceList) : \A i \in 1..3 :
            ULess(faceList[f][i], Len(vertList))

\* ---------------------------------------------------------------------- C3
\* C3: make_level_set3 is never reached with zero vertices or with a cell
\* spacing that is zero or negative (stated for the runs whose lines were
\* all read without an undefined read).
C3_EngineDomainValid ==
    (pc = "engine" /\ ub \subseteq {"sizes"}) => (Len(vertList) > 0 /\ dx > 0)

\* ---------------------------------------------------------------------- C4
\* C4 as stated: with an input count other than three or a path that does
\* not end in `.obj` the run ends with a non-zero status before any file is
\* opened; every path that ends in `.obj`, with three inputs, passes
\* validation and goes on to open the input file.
C4_EveryObjPathPasses ==
    /\ (argc # 4 \/ ~EndsInObj(filename)) =>
          /\ pc \in {"argc", "suffix", "exit"}
          /\ pc = "exit" => status = "exit(-1)"
          /\ infile = "unopened" /\ outfile = NoFile
    /\ (argc = 4 /\ EndsInObj(filename)) =>
          ~(pc = "exit" /\ infile = "unopened")

\* C4 amended: the path must be at least five characters long and end in
\* `.obj`.  Any other path, or an input count other than three, ends the
\* run with a non-zero status before any file is opened; every path of five
\* or more characters that ends in `.obj`, with three inputs, passes
\* validation and goes on to open the input file.
C4_NamedObjPathPasses ==
    LET valid == argc = 4 /\ Len(filename) >= 5 /\ EndsInObj(filename) IN
    /\ ~valid =>
          /\ pc \in {"argc", "suffix", "exit"}
          /\ pc = "exit" => status = "exit(-1)"
          /\ infile = "unopened" /\ outfile = NoFile
    /\ valid => ~(pc = "exit" /\ infile = "unopened")

\* The path `.obj` alone has been rejected.
C4_BareSuffixRejected ==
    /\ argc = 4 /\ filename = <<".", "o", "b", "j">>
    /\ pc = "exit" /\ status = "exit(-1)" /\ infile = "unopened"

\* ---------------------------------------------------------------------- C5
\* C5: the output file is written only after the engine has returned; a run
\* that ends in a fatal condition (usage error, unopenable input, parse
\* error, domain error) ends with a non-zero status and without an output
\* file; only a run that wrote the output ends with status zero (stated for
\* the runs whose lines were all read without an undefined read).
C5_FatalRunsWriteNothing ==
    LET usageError  == argc # 4 \/ ~EndsInObj(filename)
        ioError     == infile = "failed"
        parseError  == "tokens" \in ub
                         \/ (infile = "closed" /\ ~IndicesInRange(faceList, vertList))
        domainError == infile = "closed" /\ (Len(vertList) = 0 \/ dx <= 0)
    IN /\ outfile # NoFile => phi_grid # <<>>
       /\ status = "return 0" => outfile # NoFile
       /\ (pc = "exit" /\ ub \subseteq {"sizes"}
             /\ (usageError \/ ioError \/ parseError \/ domainError)) =>
             (status # "return 0" /\ outfile = NoFile)

\* ---------------------------------------------------------------------- C6
\* C6: each line read adds one to the ignored-line count exactly when it is
\* a non-empty line that is neither a vertex record nor a face record; an
\* empty line and the end of the stream add nothing.
C6_IgnoredCountsNonEmptyOthers ==
    [][ reads' = reads + 1 =>
          ignored_lines' = ignored_lines +
              (IF line' # <<>> /\ ~VertexRecord(line') /\ ~FaceRecord(line')
                 THEN 1 ELSE 0) ]_vars

\* ---------------------------------------------------------------------- C7
\* C7: reading a face line with at least three whitespace-separated vertex
\* tokens whose leading integers are a, b, c appends exactly the triangle
\* (a-1, b-1, c-1), whatever follows a `/` and whatever follows the third
\* token.
C7_FaceAppendsTriangle ==
    [][ (reads' = reads + 1 /\ FaceRecord(line') /\ Len(VertexTokens(line')) >= 3) =>
          LET t == VertexTokens(line') IN
          faceList' = Append(faceList, << LeadingInt(t[1]) - 1,
                                          LeadingInt(t[2]) - 1,
                                          LeadingInt(t[3]) - 1 >>) ]_vars

\* ---------------------------------------------------------------------- C8
\* C8: the padding in effect is max(requested, 1); it is the padding the
\* bounding box is padded with; and a requested padding below 1 never ends
\* the run: a run exits with -1 only for the input count, the suffix or an
\* input file that cannot be opened.
C8_PaddingFloor ==
    /\ ArgsParsed => padding = Max(arg3, 1)
    /\ (pc \in {"engine", "write"} /\ vertList # <<>>) =>
          \A i \in 1..3 :
             /\ min_box[i] = RoundF(SeqMin(Column(vertList, i)) - RoundF(Max(arg3, 1) * dx))
             /\ max_box[i] = RoundF(SeqMax(Column(vertList, i)) + RoundF(Max(arg3, 1) * dx))
    /\ (pc = "exit" /\ status = "exit(-1)") =>
          (argc # 4 \/ ~EndsInObj(filename) \/ Len(filename) < 5 \/ infile = "failed")

\* A requested padding of 0 or less has padded the box of a loaded mesh.
C8_ClampedPaddingUsed ==
    /\ pc = "engine" /\ arg3 <= 0 /\ padding = 1 /\ vertList # <<>>
    /\ min_box[1] = RoundF(SeqMin(Column(vertList, 1)) - dx)

\* ---------------------------------------------------------------------- C9
\* C9: for a mesh of one vertex at the origin, spacing d > 0 and effective
\* padding p, the padded box is symmetric about the origin, the origin
\* handed to the engine is its minimum and every dimension equals 2*p.
C9_SinglePointDimensions ==
    (pc = "engine" /\ vertList = << <<0, 0, 0>> >> /\ dx > 0) =>
        \A i \in 1..3 :
           /\ min_box[i] = 0 - max_box[i]
           /\ sizes[i] = 2 * padding

\* --------------------------------------------------------------------- C10
C10_Counts ==
    (pc \in {"load", "domain"}) =>
        /\ Len(vertList) + Len(faceList) + ignored_lines = reads
        /\ IF vertList = <<>>
             THEN /\ min_box = <<FLT_MAX, FLT_MAX, FLT_MAX>>
                  /\ max_box = <<0 - FLT_MAX, 0 - FLT_MAX, 0 - FLT_MAX>>
             ELSE \A i \in 1..3 :
                     /\ min_box[i] = SeqMin(Column(vertList, i))
                     /\ max_box[i] = SeqMax(Column(vertList, i))
                     /\ min_box[i] <= max_box[i]
        /\ (pc = "load" /\ eof) => ENABLED EndLoad
        /\ pc = "domain" => eof

C10_AppendOnly ==
    /\ IsPrefix(vertList, vertList') /\ Len(vertList') <= Len(vertList) + 1
    /\ IsPrefix(faceList, faceList') /\ Len(faceList') <= Len(faceList) + 1
    /\ (pc = "load" /\ pc' = "load") => (~eof /\ reads' = reads + 1)
    /\ (pc = "load" /\ eof) => pc' = "domain"

\* C10: while the load has not failed, vertices + faces + ignored lines equal
\* the number of line reads and the box is the fold of the vertices appended
\* so far (min <= max once there is one); the two sequences only grow by
\* appending; every iteration performs one read, and once the stream is
\* exhausted the loop can only be left, and is left only then.
C10_LoadLoop ==
    /\ []C10_Counts
    /\ [][C10_AppendOnly]_vars

\* The load has ended after reading a vertex, a face and the end of the file.
C10_LoadEnded ==
    /\ pc = "domain" /\ reads = 3
    /\ Len(vertList) = 1 /\ Len(faceList) = 1 /\ ignored_lines = 1

====
